---- MODULE Spec2Model ----
(***************************************************************************)
(* tap_mysql/sync_strategies/common.py: the row transcoder, the bookmark   *)
(* (checkpoint) tracker and sync_query, the loop that drives a cursor in   *)
(* immediate mode (one RECORD message per row) or in batched mode          *)
(* (rows written to rotating .jsonl files, one BATCH message per file).    *)
(***************************************************************************)
EXTENDS Integers, Sequences, FiniteSets, TLC

\* ------------------------------------------------------------------ bounds
MaxRows == 4
MaxCursorSize == 3
MaxBatchSize == 3
MaxLongRows == 2001
MaxRowLen == 3
MaxIdLen == 1
MaxCols == 2

\* `if rows_saved % 1000 == 0` (immediate mode)
SnapshotEvery == 1000

\* ------------------------------------------------------------------ values
\* Python values are tagged so that values of different types compare unequal.
None == [kind |-> "none"]
PyInt(n) == [kind |-> "int", v |-> n]
PyStr(s) == [kind |-> "str", v |-> s]
PyBool(b) == [kind |-> "bool", v |-> b]
PyBytes(bs) == [kind |-> "bytes", v |-> bs]
PyDict(f) == [kind |-> "dict", v |-> f]
PyDateTime(t) == [kind |-> "datetime", v |-> t]
PyDate(d) == [kind |-> "date", v |-> d]
PyTimeDelta(s) == [kind |-> "timedelta", v |-> s]
\* elem.isoformat() + suffix
IsoStr(t, suffix) == [kind |-> "str", iso |-> t, suffix |-> suffix]

EmptyMap == [k \in {} |-> None]

Min(a, b) == IF a <= b THEN a ELSE b

\* the value of `row` when no row is held: None, falsy like the empty tuple
NoRow == << >>

\* ------------------------------------------------------------------ catalog
\* The catalog entry sync_query is called with: table `t` of database `db`,
\* two integer columns, primary key `id`.
Table == "t"
TapStreamId == "db-t"
OtherStreamId == "db-u"
Columns == <<"id", "upd">>
KeyProperties == {"id"}
\* a declared type is the set of its type names: 'integer', ['null', 'boolean']
PropertyType(col) == {"integer"}
PropertyFormat(col) == "plain"

ReplicationMethods == {"FULL_TABLE", "LOG_BASED", "INCREMENTAL", "NONE"}

\* ------------------------------------------------------------------ row transcoder
\* one element of the row, by the native kind first and the declared type second
ConvertElem(elem, property_type, property_format) ==
  CASE elem.kind = "datetime" -> IsoStr(elem.v, "+00:00")
    [] elem.kind = "date" -> IsoStr(elem.v, "T00:00:00+00:00")
    [] elem.kind = "timedelta" ->
         IF property_format = "time"
           THEN [kind |-> "str", hms |-> elem.v]
           ELSE [kind |-> "str", epoch_plus |-> elem.v, suffix |-> "+00:00"]
    [] OTHER ->
         IF "boolean" \in property_type
           THEN IF elem = None THEN None
                ELSE IF (elem.kind \in {"int", "float"} /\ elem.v = 0)
                        \/ (elem.kind = "bool" /\ elem.v = FALSE)
                        \/ elem = PyBytes(<<0>>)
                  THEN PyBool(FALSE)
                  ELSE PyBool(TRUE)
           ELSE elem

\* `columns[idx]` for every idx of the row: a row longer than the column list
\* raises IndexError
RowRaises(row, columns) == Len(row) > Len(columns)

\* dict(zip(columns, row_to_persist)): zip stops at the shorter of the two
row_to_singer_record(properties, row, columns) ==
  LET n == Min(Len(row), Len(columns))
  IN  [c \in {columns[i] : i \in 1..n} |->
         LET i == CHOOSE j \in 1..n : columns[j] = c
         IN  ConvertElem(row[i], properties[c].type, properties[c].format)]

\* catalog_entry.schema.properties
Properties ==
  [c \in {Columns[i] : i \in 1..Len(Columns)} |->
     [type |-> PropertyType(c), format |-> PropertyFormat(c)]]

RowToSingerRecord(row, columns) == row_to_singer_record(Properties, row, columns)

\* ------------------------------------------------------------------ bookmarks
\* state['bookmarks'] : stream id -> (bookmark key -> value)
get_bookmark(state, tap_stream_id, key) ==
  IF tap_stream_id \in DOMAIN state /\ key \in DOMAIN state[tap_stream_id]
    THEN state[tap_stream_id][key]
    ELSE None

\* the stream's bookmarks replaced by the one written
write_bookmark_replacing(state, tap_stream_id, key, val) ==
  (tap_stream_id :> (key :> val)) @@ state

write_bookmark(state, tap_stream_id, key, val) ==
  IF tap_stream_id \in DOMAIN state
    THEN [state EXCEPT ![tap_stream_id] = (key :> val) @@ state[tap_stream_id]]
    ELSE (tap_stream_id :> (key :> val)) @@ state

\* singer.clear_bookmark: the path to the stream's bookmarks is created when
\* absent, then the key is popped
clear_bookmark(state, tap_stream_id, key) ==
  IF tap_stream_id \in DOMAIN state
    THEN [state EXCEPT ![tap_stream_id] = [k \in DOMAIN @ \ {key} |-> @[k]]]
    ELSE (tap_stream_id :> EmptyMap) @@ state

\* clear_bookmark for each key of the list, one after the other
RECURSIVE ClearEach(_, _, _)
ClearEach(state, tap_stream_id, keys) ==
  IF keys = {} THEN state
  ELSE LET key == CHOOSE k \in keys : TRUE
       IN  ClearEach(clear_bookmark(state, tap_stream_id, key), tap_stream_id,
                     keys \ {key})

\* the keys of state.get('bookmarks', {}).get(tap_stream_id, {})
BookmarkKeysOf(state, tap_stream_id) ==
  IF tap_stream_id \in DOMAIN state THEN DOMAIN state[tap_stream_id] ELSE {}

\* the test inverted: the whitelisted keys are the ones cleared
whitelist_bookmark_keys_inverted(bookmark_key_set, tap_stream_id, state) ==
  ClearEach(state, tap_stream_id,
            {k \in BookmarkKeysOf(state, tap_stream_id) : k \in bookmark_key_set})

whitelist_bookmark_keys(bookmark_key_set, tap_stream_id, state) ==
  ClearEach(state, tap_stream_id,
            {k \in BookmarkKeysOf(state, tap_stream_id) : k \notin bookmark_key_set})

\* Python truthiness of a bookmark value (`if max_pk_values:`)
Truthy(val) ==
  CASE val = None -> FALSE
    [] val.kind = "dict" -> DOMAIN val.v # {}
    [] val.kind = "int" -> val.v # 0
    [] val.kind = "bool" -> val.v
    [] OTHER -> TRUE

\* record_message.record[replication_key] raises KeyError when the record
\* has no such column
UpdateRaises(record, replication_method, state) ==
  /\ replication_method = "INCREMENTAL"
  /\ get_bookmark(state, TapStreamId, "replication_key") # None
  /\ get_bookmark(state, TapStreamId, "replication_key").v \notin DOMAIN record

\* INCREMENTAL: the key re-affirmed, the value not written
update_bookmark_key_only(record, replication_method, state) ==
  IF replication_method \in {"FULL_TABLE", "LOG_BASED"}
    THEN LET max_pk_values == get_bookmark(state, TapStreamId, "max_pk_values")
         IN  IF Truthy(max_pk_values)
               THEN write_bookmark(state, TapStreamId, "last_pk_fetched",
                      PyDict([k \in DOMAIN record \cap KeyProperties |-> record[k]]))
               ELSE state
    ELSE IF replication_method = "INCREMENTAL"
      THEN LET replication_key == get_bookmark(state, TapStreamId, "replication_key")
           IN  IF replication_key # None
                 THEN write_bookmark(state, TapStreamId, "replication_key", replication_key)
                 ELSE state
      ELSE state

update_bookmark(record, replication_method, state) ==
  IF replication_method \in {"FULL_TABLE", "LOG_BASED"}
    THEN LET max_pk_values == get_bookmark(state, TapStreamId, "max_pk_values")
         IN  IF Truthy(max_pk_values)
               THEN write_bookmark(state, TapStreamId, "last_pk_fetched",
                      PyDict([k \in DOMAIN record \cap KeyProperties |-> record[k]]))
               ELSE state
    ELSE IF replication_method = "INCREMENTAL"
      THEN LET replication_key == get_bookmark(state, TapStreamId, "replication_key")
           IN  IF replication_key # None
                 THEN write_bookmark(
                        write_bookmark(state, TapStreamId, "replication_key", replication_key),
                        TapStreamId, "replication_key_value", record[replication_key.v])
                 ELSE state
      ELSE state

\* ------------------------------------------------------------------ batch files
\* str(file_index).zfill(6): the decimal digits, left-padded with zeros to six
RECURSIVE Digits(_)
Digits(n) == IF n < 10 THEN <<n>> ELSE Append(Digits(n \div 10), n % 10)

ZFill6(n) ==
  LET d == Digits(n)
  IN  IF Len(d) >= 6 THEN d ELSE [i \in 1..(6 - Len(d)) |-> 0] \o d

\* every file of the table named with index 0
SamePathEveryIndex(table_name, file_index) ==
  [dir |-> table_name, name |-> table_name, index |-> ZFill6(0), ext |-> "jsonl"]

\* <base_path>/<table>/<table>_<index, 6 digits>.jsonl
get_new_batch_file_path(table_name, file_index) ==
  [dir |-> table_name, name |-> table_name, index |-> ZFill6(file_index), ext |-> "jsonl"]

\* open(file_path, 'w'): the file is created, or truncated when it exists
OpenForWrite(disk, path) ==
  [p \in DOMAIN disk \cup {path} |-> IF p = path THEN <<>> ELSE disk[p]]

\* file.write(json.dumps(record_message.asdict())); file.write('\n')
WriteLine(disk, path, message) ==
  [disk EXCEPT ![path] = Append(@, [json |-> message])]

\* ------------------------------------------------------------------ messages
StreamVersion == PyInt(1)

RecordMessage(rec) ==
  [type |-> "RECORD", stream |-> TapStreamId, record |-> rec, version |-> StreamVersion]

BatchMessage(path, size) ==
  [type |-> "BATCH", stream |-> TapStreamId, filepath |-> path, batch_size |-> size]

\* singer.StateMessage(value=copy.deepcopy(state))
\* A value that is the checkpoint object itself and not a copy of it: it reads
\* as whatever the checkpoint holds when it is read.
LiveState == [alias |-> "state"]

\* StateMessage(value=state), the copy.deepcopy left out
StateMessageAliased(st) == [type |-> "STATE", value |-> LiveState]

\* singer.StateMessage(value=copy.deepcopy(state)): the value is a copy, with
\* the content the checkpoint has at the call
StateMessage(st) == [type |-> "STATE", value |-> st]

\* ------------------------------------------------------------------ configuration
ConfigGet(cfg, key, default) == IF key \in DOMAIN cfg THEN cfg[key] ELSE default

Batch(cfg) == ConfigGet(cfg, "batch_messages", FALSE)

BatchCursorSize(cfg) == cfg["batch_cursor_size"]

\* config.get('batch_size', batch_cursor_size * 2)
WriteBatchRows(cfg) == ConfigGet(cfg, "batch_size", BatchCursorSize(cfg) * 2)

ImmediateConfigs == {[k \in {} |-> 0], [batch_messages |-> FALSE]}

BatchConfigs ==
  {[batch_messages |-> TRUE, batch_cursor_size |-> c] : c \in 1..MaxCursorSize}
  \cup {[batch_messages |-> TRUE, batch_cursor_size |-> c, batch_size |-> b] :
          c \in 1..MaxCursorSize, b \in 1..MaxBatchSize}

\* ------------------------------------------------------------------ inputs
\* rows the cursor may yield: two well-formed rows, one with a value missing
\* and one with a value too many
RowDomain ==
  { <<PyInt(1), PyInt(2)>>, <<PyInt(2), PyInt(1)>>,
    <<PyInt(1)>>, <<PyInt(1), PyInt(2), PyInt(2)>> }

LongRowDomain == { <<PyInt(1), PyInt(2)>> }

OtherBookmarks ==
  [version |-> PyInt(1), replication_key |-> PyStr("upd"), replication_key_value |-> PyInt(2)]

\* checkpoint trees sync_query may be handed: no bookmark for the stream, a
\* resumed stream with both baseline markers, and an empty max_pk_values
InitialStates ==
  { (OtherStreamId :> OtherBookmarks),
    (OtherStreamId :> OtherBookmarks) @@
      (TapStreamId :> [version |-> PyInt(1),
                       max_pk_values |-> PyDict([id |-> PyInt(2)]),
                       replication_key |-> PyStr("upd"),
                       replication_key_value |-> PyInt(1)]),
    (OtherStreamId :> OtherBookmarks) @@
      (TapStreamId :> [version |-> PyInt(1), max_pk_values |-> PyDict(EmptyMap)]) }

\* no function called yet
NoCall == [fn |-> "none"]

\* ------------------------------------------------------------------ state
VARIABLES
  config,             \* the tap configuration (batch_messages, batch_cursor_size, batch_size)
  replication_method, \* the stream's replication-method metadata
  source,             \* the cursor's content: how many rows at most, drawn from which set
  fetched,            \* the rows the cursor has returned so far, in order
  exhausted,          \* the cursor has no more rows
  state_in,           \* the checkpoint tree sync_query was called with
  state,              \* the checkpoint tree (bookmarks)
  pc,                 \* position in sync_query
  row,                \* immediate mode: the row just fetched
  rows,               \* batched mode: the chunk just fetched
  ri,                 \* batched mode: index in rows of the row being processed
  full_batch,         \* len(rows) == batch_cursor_size (never read)
  record_message,     \* the record of the current row
  rows_saved,
  batch_rows_saved,
  batch_file_index,
  file,               \* the current file object: an index in handles, 0 before the first open
  file_path,
  handles,            \* every file object opened: its path, whether closed, close() calls
  disk,               \* path -> lines
  messages,           \* what singer.write_message has emitted, in order
  n_updates,          \* number of update_bookmark calls that returned
  failed,             \* an exception was raised and left sync_query
  call                \* the last call of one of the module's other functions: its
                      \* arguments and what it returned or raised

vars ==
  << call, config, replication_method, source, state_in, fetched, exhausted, state, pc, row, rows, ri,
     full_batch, record_message, rows_saved, batch_rows_saved, batch_file_index, file,
     file_path, handles, disk, messages, n_updates, failed >>

InitLocals ==
  /\ fetched = <<>>
  /\ exhausted = FALSE
  /\ pc = "execute"
  /\ row = NoRow
  /\ rows = <<>>
  /\ ri = 0
  /\ full_batch = FALSE
  /\ record_message = None
  /\ rows_saved = 0
  /\ batch_rows_saved = 0
  /\ batch_file_index = 0
  /\ file = 0
  /\ file_path = None
  /\ handles = <<>>
  /\ disk = [p \in {} |-> <<>>]
  /\ messages = <<>>
  /\ n_updates = 0
  /\ failed = FALSE
  /\ call = NoCall

\* the short inputs: every configuration, replication method and checkpoint, a
\* cursor of at most MaxRows rows
InitShort ==
  /\ config \in ImmediateConfigs \cup BatchConfigs
  /\ replication_method \in ReplicationMethods
  /\ source = [limit |-> MaxRows, domain |-> RowDomain]
  /\ state_in \in InitialStates

\* the long input: immediate mode over a cursor of up to MaxLongRows equal
\* rows, so that the 1000-row snapshot period is reached
InitLong ==
  /\ config = [batch_messages |-> FALSE]
  /\ replication_method = "INCREMENTAL"
  /\ source = [limit |-> MaxLongRows, domain |-> LongRowDomain]
  /\ state_in \in {st \in InitialStates :
                     get_bookmark(st, TapStreamId, "replication_key") # None}

Init ==
  /\ InitShort \/ InitLong
  /\ state = state_in
  /\ InitLocals

\* ------------------------------------------------------------------ control flow
\* the bookmark update placed before the output of the record
StepAfterSwapped(l) ==
  CASE l = "transcode" -> "update"
    [] l = "update" -> "write"
    [] l = "write" -> "check"
    [] l = "b_transcode" -> "b_update"
    [] l = "b_update" -> "b_write"
    [] l = "b_write" -> "b_check"

\* The order of the statements applied to one row: build the record, output
\* it (write_message, or file.write), then update the bookmark.
StepAfter(l) ==
  CASE l = "transcode" -> "write"
    [] l = "write" -> "update"
    [] l = "update" -> "check"
    [] l = "b_transcode" -> "b_write"
    [] l = "b_write" -> "b_update"
    [] l = "b_update" -> "b_check"

\* a row that cannot be transcoded is skipped and the loop goes on
OnErrorSkipRow(l) == IF l = "transcode" THEN "fetchone" ELSE "aborted"

\* sync_query has no try/except: an exception raised at any statement leaves it
OnError(l) == "aborted"

\* `if rows_saved % 1000:`, the comparison with 0 left out
SnapshotTestTruthy(n) == IF n % SnapshotEvery # 0 THEN "snapshot" ELSE "fetchone"

\* `if rows_saved % 1000 == 0`, then `row = cursor.fetchone()`
SnapshotTest(n) == IF n % SnapshotEvery = 0 THEN "snapshot" ELSE "fetchone"

\* `if batch_rows_saved % write_batch_rows == 0`, evaluated after the chunk's
\* for loop, then `rows = cursor.fetchmany(batch_cursor_size)`
RotateTest(n, write_batch_rows) ==
  IF n % write_batch_rows = 0 THEN "rotate_close" ELSE "fetchmany"

\* where control goes after statement l of the row at index i of a chunk of
\* n rows: [pc, ri]
Goto(l, i, n, saved, batch_saved, write_batch_rows) ==
  LET nxt == StepAfter(l)
  IN  CASE nxt = "check" -> [pc |-> SnapshotTest(saved), ri |-> 0]
        [] nxt = "b_check" ->
             IF i < n THEN [pc |-> "b_transcode", ri |-> i + 1]
                      ELSE [pc |-> RotateTest(batch_saved, write_batch_rows), ri |-> 0]
        [] OTHER -> [pc |-> nxt, ri |-> i]

\* the last BatchMessage published without the test
FinalBatchAlways(n, write_batch_rows) == TRUE

\* the last BatchMessage never published
FinalBatchNever(n, write_batch_rows) == FALSE

\* `if batch_rows_saved % write_batch_rows != 0`: publish the last BatchMessage
FinalBatchTest(n, write_batch_rows) == n % write_batch_rows # 0

\* file.close() left out
CloseHandleSkipped(hs, h) == hs

\* file.close()
CloseHandle(hs, h) ==
  [hs EXCEPT ![h] = [@ EXCEPT !.closed = TRUE, !.closes = @ + 1]]

Emit(msgs, m) == Append(msgs, m)

\* ------------------------------------------------------------------ sync_query
\* cursor.execute(select_sql, params) and the reading of the metadata
Execute ==
  /\ pc = "execute"
  /\ pc' = IF Batch(config) THEN "open_first" ELSE "fetchone"
  /\ UNCHANGED << call, config, replication_method, source, state_in, fetched, exhausted, state, row, rows,
                  ri, full_batch, record_message, rows_saved, batch_rows_saved,
                  batch_file_index, file, file_path, handles, disk, messages, n_updates,
                  failed >>

\* row = cursor.fetchone(); while row:
FetchOne ==
  /\ pc = "fetchone"
  /\ \/ /\ ~exhausted
        /\ Len(fetched) < source.limit
        /\ \E r \in source.domain :
             /\ row' = r
             /\ fetched' = Append(fetched, r)
        /\ pc' = "transcode"
        /\ UNCHANGED exhausted
     \/ /\ row' = NoRow
        /\ exhausted' = TRUE
        /\ pc' = "final_state"
        /\ UNCHANGED fetched
  /\ UNCHANGED << call, config, replication_method, source, state_in, state, rows, ri, full_batch,
                  record_message, rows_saved, batch_rows_saved, batch_file_index, file,
                  file_path, handles, disk, messages, n_updates, failed >>

\* counter.increment(); rows_saved += 1; record_message = row_to_singer_record(...)
Transcode ==
  /\ pc = "transcode"
  /\ rows_saved' = rows_saved + 1
  /\ IF RowRaises(row, Columns)
       THEN /\ pc' = OnError(pc)
            /\ failed' = TRUE
            /\ UNCHANGED record_message
       ELSE /\ record_message' = RowToSingerRecord(row, Columns)
            /\ pc' = StepAfter(pc)
            /\ UNCHANGED failed
  /\ UNCHANGED << call, config, replication_method, source, state_in, fetched, exhausted, state, row, rows,
                  ri, full_batch, batch_rows_saved, batch_file_index, file, file_path,
                  handles, disk, messages, n_updates >>

\* singer.write_message(record_message)
WriteRecord ==
  /\ pc = "write"
  /\ messages' = Emit(messages, RecordMessage(record_message))
  /\ pc' = Goto(pc, 0, 0, rows_saved, batch_rows_saved, 1).pc
  /\ UNCHANGED << call, config, replication_method, source, state_in, fetched, exhausted, state, row, rows,
                  ri, full_batch, record_message, rows_saved, batch_rows_saved,
                  batch_file_index, file, file_path, handles, disk, n_updates, failed >>

\* state = update_bookmark(record_message, replication_method, catalog_entry, state)
UpdateBookmark ==
  /\ pc = "update"
  /\ IF UpdateRaises(record_message, replication_method, state)
       THEN /\ pc' = OnError(pc)
            /\ failed' = TRUE
            /\ UNCHANGED << state, n_updates >>
       ELSE /\ state' = update_bookmark(record_message, replication_method, state)
            /\ n_updates' = n_updates + 1
            /\ pc' = Goto(pc, 0, 0, rows_saved, batch_rows_saved, 1).pc
            /\ UNCHANGED failed
  /\ UNCHANGED << call, config, replication_method, source, state_in, fetched, exhausted, row, rows, ri,
                  full_batch, record_message, rows_saved, batch_rows_saved,
                  batch_file_index, file, file_path, handles, disk, messages >>

\* singer.write_message(singer.StateMessage(value=copy.deepcopy(state))), every 1000 rows
Snapshot ==
  /\ pc = "snapshot"
  /\ messages' = Emit(messages, StateMessage(state))
  /\ pc' = "fetchone"
  /\ UNCHANGED << call, config, replication_method, source, state_in, fetched, exhausted, state, row, rows,
                  ri, full_batch, record_message, rows_saved, batch_rows_saved,
                  batch_file_index, file, file_path, handles, disk, n_updates, failed >>

\* sync_query returning without its last statement
FinalStateSkipped ==
  /\ pc = "final_state"
  /\ pc' = "done"
  /\ UNCHANGED << call, config, replication_method, source, state_in, fetched, exhausted, state, row, rows,
                  ri, full_batch, record_message, rows_saved, batch_rows_saved,
                  batch_file_index, file, file_path, handles, disk, messages, n_updates,
                  failed >>

\* the last statement: singer.write_message(singer.StateMessage(value=copy.deepcopy(state)))
FinalState ==
  /\ pc = "final_state"
  /\ messages' = Emit(messages, StateMessage(state))
  /\ pc' = "done"
  /\ UNCHANGED << call, config, replication_method, source, state_in, fetched, exhausted, state, row, rows,
                  ri, full_batch, record_message, rows_saved, batch_rows_saved,
                  batch_file_index, file, file_path, handles, disk, n_updates, failed >>

\* ------------------------------------------------------------------ batched mode
\* file_path = get_new_batch_file_path(table, batch_file_index); file = open(file_path, 'w');
\* batch_file_index += 1
OpenNextFile ==
  LET path == get_new_batch_file_path(Table, batch_file_index)
  IN  /\ file_path' = path
      /\ disk' = OpenForWrite(disk, path)
      /\ handles' = Append(handles, [path |-> path, closed |-> FALSE, closes |-> 0])
      /\ file' = Len(handles) + 1
      /\ batch_file_index' = batch_file_index + 1

\* record_message = None; batch_rows_saved = 0; batch_file_index = 0; open the first file
OpenFirst ==
  /\ pc = "open_first"
  /\ OpenNextFile
  /\ pc' = "fetchmany"
  /\ UNCHANGED << call, config, replication_method, source, state_in, fetched, exhausted, state, row, rows,
                  ri, full_batch, record_message, rows_saved, batch_rows_saved, messages,
                  n_updates, failed >>

\* rows = cursor.fetchmany(batch_cursor_size); full_batch = ...; while rows:
\* a chunk shorter than batch_cursor_size means the cursor is exhausted
FetchMany ==
  /\ pc = "fetchmany"
  /\ \E k \in 0..Min(BatchCursorSize(config),
                     IF exhausted THEN 0 ELSE source.limit - Len(fetched)) :
       \E chunk \in [1..k -> source.domain] :
         /\ rows' = chunk
         /\ fetched' = fetched \o chunk
         /\ exhausted' = (exhausted \/ k < BatchCursorSize(config))
         /\ full_batch' = (k = BatchCursorSize(config))
         /\ pc' = IF k = 0 THEN "close_last" ELSE "b_transcode"
         /\ ri' = IF k = 0 THEN 0 ELSE 1
  /\ UNCHANGED << call, config, replication_method, source, state_in, state, row, record_message,
                  rows_saved, batch_rows_saved, batch_file_index, file, file_path, handles,
                  disk, messages, n_updates, failed >>

\* for row in rows: record_message = row_to_singer_record(...)
BTranscode ==
  /\ pc = "b_transcode"
  /\ row' = rows[ri]
  /\ IF RowRaises(rows[ri], Columns)
       THEN /\ pc' = OnError(pc)
            /\ failed' = TRUE
            /\ UNCHANGED record_message
       ELSE /\ record_message' = RowToSingerRecord(rows[ri], Columns)
            /\ pc' = StepAfter(pc)
            /\ UNCHANGED failed
  /\ UNCHANGED << call, config, replication_method, source, state_in, fetched, exhausted, state, rows, ri,
                  full_batch, rows_saved, batch_rows_saved, batch_file_index, file,
                  file_path, handles, disk, messages, n_updates >>

\* file.write(json.dumps(record_message.asdict())); file.write('\n')
BWrite ==
  /\ pc = "b_write"
  /\ disk' = WriteLine(disk, handles[file].path, RecordMessage(record_message))
  /\ LET g == Goto(pc, ri, Len(rows), rows_saved, batch_rows_saved, WriteBatchRows(config))
     IN  pc' = g.pc /\ ri' = g.ri
  /\ UNCHANGED << call, config, replication_method, source, state_in, fetched, exhausted, state, row, rows,
                  full_batch, record_message, rows_saved, batch_rows_saved,
                  batch_file_index, file, file_path, handles, messages, n_updates, failed >>

\* counter.increment(); rows_saved += 1; batch_rows_saved += 1; state = update_bookmark(...)
BUpdate ==
  /\ pc = "b_update"
  /\ rows_saved' = rows_saved + 1
  /\ batch_rows_saved' = batch_rows_saved + 1
  /\ IF UpdateRaises(record_message, replication_method, state)
       THEN /\ pc' = OnError(pc)
            /\ failed' = TRUE
            /\ UNCHANGED << state, n_updates, ri >>
       ELSE /\ state' = update_bookmark(record_message, replication_method, state)
            /\ n_updates' = n_updates + 1
            /\ LET g == Goto(pc, ri, Len(rows), rows_saved + 1, batch_rows_saved + 1,
                             WriteBatchRows(config))
               IN  pc' = g.pc /\ ri' = g.ri
            /\ UNCHANGED failed
  /\ UNCHANGED << call, config, replication_method, source, state_in, fetched, exhausted, row, rows,
                  full_batch, record_message, batch_file_index, file, file_path, handles,
                  disk, messages >>

\* rotation, first statement: file.close()
RotateClose ==
  /\ pc = "rotate_close"
  /\ handles' = CloseHandle(handles, file)
  /\ pc' = "rotate_batch"
  /\ UNCHANGED << call, config, replication_method, source, state_in, fetched, exhausted, state, row, rows,
                  ri, full_batch, record_message, rows_saved, batch_rows_saved,
                  batch_file_index, file, file_path, disk, messages, n_updates, failed >>

\* singer.write_message(BatchMessage(stream, filepath=file_path, batch_size=write_batch_rows))
RotateBatch ==
  /\ pc = "rotate_batch"
  /\ messages' = Emit(messages, BatchMessage(file_path, WriteBatchRows(config)))
  /\ pc' = "rotate_open"
  /\ UNCHANGED << call, config, replication_method, source, state_in, fetched, exhausted, state, row, rows,
                  ri, full_batch, record_message, rows_saved, batch_rows_saved,
                  batch_file_index, file, file_path, handles, disk, n_updates, failed >>

\* start a new file; batch_rows_saved = 0
RotateOpen ==
  /\ pc = "rotate_open"
  /\ OpenNextFile
  /\ batch_rows_saved' = 0
  /\ pc' = "rotate_state"
  /\ UNCHANGED << call, config, replication_method, source, state_in, fetched, exhausted, state, row, rows,
                  ri, full_batch, record_message, rows_saved, messages, n_updates, failed >>

\* singer.write_message(singer.StateMessage(value=copy.deepcopy(state))); fetch the next chunk
RotateState ==
  /\ pc = "rotate_state"
  /\ messages' = Emit(messages, StateMessage(state))
  /\ pc' = "fetchmany"
  /\ UNCHANGED << call, config, replication_method, source, state_in, fetched, exhausted, state, row, rows,
                  ri, full_batch, record_message, rows_saved, batch_rows_saved,
                  batch_file_index, file, file_path, handles, disk, n_updates, failed >>

\* if not file.closed: file.close()
CloseLast ==
  /\ pc = "close_last"
  /\ handles' = IF handles[file].closed THEN handles ELSE CloseHandle(handles, file)
  /\ pc' = "final_batch"
  /\ UNCHANGED << call, config, replication_method, source, state_in, fetched, exhausted, state, row, rows,
                  ri, full_batch, record_message, rows_saved, batch_rows_saved,
                  batch_file_index, file, file_path, disk, messages, n_updates, failed >>

\* if batch_rows_saved % write_batch_rows != 0: write the last BatchMessage,
\* batch_size=batch_rows_saved
FinalBatch ==
  /\ pc = "final_batch"
  /\ messages' = IF FinalBatchTest(batch_rows_saved, WriteBatchRows(config))
                   THEN Emit(messages, BatchMessage(file_path, batch_rows_saved))
                   ELSE messages
  /\ pc' = "final_state"
  /\ UNCHANGED << call, config, replication_method, source, state_in, fetched, exhausted, state, row, rows,
                  ri, full_batch, record_message, rows_saved, batch_rows_saved,
                  batch_file_index, file, file_path, handles, disk, n_updates, failed >>

\* ------------------------------------------------------------------ failures
\* the statements that talk to the database or the file system may raise
IOPoints == {"execute", "fetchone", "fetchmany", "open_first", "rotate_open", "b_write"}

IOError ==
  /\ pc \in IOPoints
  /\ pc' = OnError(pc)
  /\ failed' = TRUE
  /\ UNCHANGED << call, config, replication_method, source, state_in, fetched, exhausted, state, row, rows,
                  ri, full_batch, record_message, rows_saved, batch_rows_saved,
                  batch_file_index, file, file_path, handles, disk, messages, n_updates >>

\* ------------------------------------------------------------------ specifications
Next ==
  \/ Execute
  \/ FetchOne
  \/ Transcode
  \/ WriteRecord
  \/ UpdateBookmark
  \/ Snapshot
  \/ FinalState
  \/ OpenFirst
  \/ FetchMany
  \/ BTranscode
  \/ BWrite
  \/ BUpdate
  \/ RotateClose
  \/ RotateBatch
  \/ RotateOpen
  \/ RotateState
  \/ CloseLast
  \/ FinalBatch
  \/ IOError

Spec == Init /\ [][Next]_vars

\* sync_query is sequential code on one thread: while a statement remains to
\* be executed, one is executed
FairSpec == Spec /\ WF_vars(Next)

\* ------------------------------------------------------------------ observations
Last(s) == s[Len(s)]

IsDone == pc = "done"

Batched == Batch(config)

\* lines of the file behind file object h
LinesOf(h) == disk[handles[h].path]

\* the lines of the batch files, in increasing file index
RECURSIVE LinesUpTo(_)
LinesUpTo(h) == IF h = 0 THEN <<>> ELSE LinesUpTo(h - 1) \o LinesOf(h)

EmittedRecords == SelectSeq(messages, LAMBDA m : m.type = "RECORD")

\* the records output so far: RECORD messages, or lines of the batch files
OutRecords ==
  IF Batched
    THEN LET ls == LinesUpTo(Len(handles)) IN [i \in 1..Len(ls) |-> ls[i].json.record]
    ELSE LET ms == EmittedRecords IN [i \in 1..Len(ms) |-> ms[i].record]

CountType(t) == Cardinality({i \in 1..Len(messages) : messages[i].type = t})

\* file objects whose file holds at least one row
FilledFiles == {h \in 1..Len(handles) : Len(LinesOf(h)) > 0}

CeilDiv(a, b) == (a + b - 1) \div b

\* ------------------------------------------------------------------ claims
\* C1: in batched mode the row counter of the open file never exceeds batch_size,
\* and no batch file holds more than batch_size rows.
C1_FileRowsWithinBatchSize ==
  Batched =>
    /\ batch_rows_saved <= WriteBatchRows(config)
    /\ \A h \in 1..Len(handles) : Len(LinesOf(h)) <= WriteBatchRows(config)

\* C2: on completion of a batched sync of R rows with threshold T, the files
\* holding rows are ceil(R / T) in number, and the last of them holds R mod T
\* rows, or T rows when T divides R.
C2_CeilFilesAndRemainder ==
  (IsDone /\ Batched) =>
    LET R == Len(fetched)
        T == WriteBatchRows(config)
    IN  /\ Cardinality(FilledFiles) = CeilDiv(R, T)
        /\ \A h \in FilledFiles :
             (\A g \in FilledFiles : g <= h) =>
               Len(LinesOf(h)) = (IF R % T = 0 THEN T ELSE R % T)

\* C3: every BATCH message carries as batch_size the number of rows written to
\* the file its filepath names.
C3_DescriptorCountsRows ==
  \A i \in 1..Len(messages) :
    messages[i].type = "BATCH" =>
      messages[i].batch_size = Len(disk[messages[i].filepath])

\* a STATE message is emitted by this step
EmitsSnapshot == Len(messages') = Len(messages) + 1 /\ Last(messages').type = "STATE"

\* C4: a record is output (emitted, or written to its batch file) before the
\* bookmark update that uses it: update_bookmark runs, and the checkpoint
\* changes, only with the record output last; and a snapshot is emitted only
\* when every record output has had its bookmark update, and holds the
\* checkpoint as that update left it.
C4_UpdateFollowsOutput ==
  /\ n_updates <= Len(OutRecords)
  /\ pc \in {"update", "b_update"} =>
       /\ Len(OutRecords) = n_updates + 1
       /\ Last(OutRecords) = record_message

C4_OrderedStep ==
  /\ (n_updates' # n_updates \/ state' # state) =>
       /\ n_updates' = n_updates + 1
       /\ Len(OutRecords) = n_updates + 1
       /\ state' = update_bookmark(Last(OutRecords), replication_method, state)
  /\ EmitsSnapshot =>
       /\ n_updates = Len(OutRecords)
       /\ Last(messages').value = state

\* C4, as one formula: the order holds in every state and at every step.
C4_RecordBeforeCheckpoint ==
  [](C4_UpdateFollowsOutput) /\ [][C4_OrderedStep]_vars

C4_Witness ==
  /\ IsDone
  /\ n_updates >= 2
  /\ \E i \in 1..(Len(messages) - 1) :
       /\ messages[i].type = "STATE"
       /\ messages[i].value # state_in
       /\ messages[i].value # state

\* C5: on completion the records output, in output order (RECORD messages, or
\* the lines of the batch files by increasing index), are the transcoded rows
\* of the cursor in fetch order, each once.
C5_RecordsInFetchOrder ==
  IsDone =>
    OutRecords = [i \in 1..Len(fetched) |-> RowToSingerRecord(fetched[i], Columns)]

C5_Witness ==
  /\ IsDone
  /\ Batched
  /\ Len(handles) >= 2
  /\ Len(fetched) >= 3
  /\ fetched[1] # fetched[2]

\* C6: when sync_query exits, normally or by an exception, every file it opened
\* has been closed, by exactly one close() call.
C6_EveryFileClosedOnce ==
  /\ \A h \in 1..Len(handles) : handles[h].closes <= 1
  /\ pc \in {"done", "aborted"} =>
       \A h \in 1..Len(handles) : handles[h].closed /\ handles[h].closes = 1

\* C7: once a fetch, a transcoding, a bookmark update or a file write has
\* failed, sync_query has stopped: the failing step and every later step emit
\* no message, fetch no row, write no line and change no bookmark.
C7_NothingAfterFailure ==
  failed' =>
    /\ messages' = messages
    /\ fetched' = fetched
    /\ disk' = disk
    /\ state' = state

\* C7, as one formula: a failure leaves sync_query aborted, and nothing follows it.
C7_FailureAborts ==
  [](failed => pc = "aborted") /\ [][C7_NothingAfterFailure]_vars

C7_Witness ==
  /\ failed
  /\ pc = "aborted"
  /\ RowRaises(row, Columns)
  /\ Len(fetched) >= 2
  /\ Len(messages) >= 1

\* C8: in immediate mode a STATE message follows every 1000th RECORD message
\* and nothing else but the end of the cursor: the message at position i is a
\* snapshot exactly when i is a multiple of 1001, or i is the last position of
\* a completed run; N rows give N RECORD messages and N div 1000 + 1 snapshots.
C8_SnapshotEveryThousand ==
  ~Batched =>
    /\ \A i \in 1..Len(messages) :
         (messages[i].type = "STATE") <=>
           \/ i % (SnapshotEvery + 1) = 0
           \/ IsDone /\ i = Len(messages)
    /\ IsDone =>
         /\ CountType("RECORD") = Len(fetched)
         /\ CountType("STATE") = (Len(fetched) \div SnapshotEvery) + 1
         /\ Len(messages) = CountType("RECORD") + CountType("STATE")

C8_Witness ==
  /\ IsDone
  /\ ~Batched
  /\ Len(fetched) = SnapshotEvery + 1
  /\ CountType("STATE") = 2
  /\ messages[SnapshotEvery + 1].type = "STATE"

\* C9: a completed batched run has emitted, for each rotation, the BATCH
\* message of the closed file and then a STATE message; then one BATCH message
\* for the last file if and only if it holds rows; then one STATE message, and
\* nothing else.  With batch_cursor_size = batch_size = T and R rows, T not
\* dividing R, that is ceil(R / T) files, BATCH messages and STATE messages.
C9_BatchedMessageStream ==
  (IsDone /\ Batched) =>
    LET rot == Len(handles) - 1
        leftover == Len(LinesOf(Len(handles))) > 0
        n == 2 * rot + (IF leftover THEN 1 ELSE 0) + 1
        R == Len(fetched)
        T == WriteBatchRows(config)
    IN  /\ Len(messages) = n
        /\ \A j \in 1..rot :
             /\ messages[2 * j - 1].type = "BATCH"
             /\ messages[2 * j - 1].filepath = handles[j].path
             /\ messages[2 * j].type = "STATE"
        /\ leftover =>
             /\ messages[n - 1].type = "BATCH"
             /\ messages[n - 1].filepath = handles[Len(handles)].path
        /\ messages[n].type = "STATE"
        /\ (BatchCursorSize(config) = T /\ R % T # 0) =>
             /\ Len(handles) = CeilDiv(R, T)
             /\ CountType("BATCH") = CeilDiv(R, T)
             /\ CountType("STATE") = CeilDiv(R, T)

C9_Witness ==
  /\ IsDone
  /\ Batched
  /\ BatchCursorSize(config) = WriteBatchRows(config)
  /\ Len(fetched) % WriteBatchRows(config) # 0
  /\ Len(handles) >= 2
  /\ CountType("BATCH") = Len(handles)

\* C10: for an INCREMENTAL stream called with a replication_key marker, once a
\* record has had its bookmark update the checkpoint's replication_key_value
\* is that column's value in the last record so processed and replication_key
\* is the marker; and each snapshot emitted carries the marker and the value of
\* the last record output before it (the value it was called with, if none).
IncrementalWithMarker ==
  /\ replication_method = "INCREMENTAL"
  /\ get_bookmark(state_in, TapStreamId, "replication_key") # None

C10_ValueOfLastRecord ==
  (IncrementalWithMarker /\ n_updates >= 1) =>
    LET marker == get_bookmark(state_in, TapStreamId, "replication_key")
    IN  /\ get_bookmark(state, TapStreamId, "replication_key") = marker
        /\ get_bookmark(state, TapStreamId, "replication_key_value")
             = OutRecords[n_updates][marker.v]

C10_SnapshotCarriesLast ==
  (IncrementalWithMarker /\ EmitsSnapshot) =>
    LET marker == get_bookmark(state_in, TapStreamId, "replication_key")
        snap == Last(messages').value
    IN  /\ get_bookmark(snap, TapStreamId, "replication_key") = marker
        /\ get_bookmark(snap, TapStreamId, "replication_key_value")
             = IF Len(OutRecords) = 0
                 THEN get_bookmark(state_in, TapStreamId, "replication_key_value")
                 ELSE Last(OutRecords)[marker.v]

\* C10, as one formula: the checkpoint in every state, the snapshot at every emission.
C10_IncrementalBookmark ==
  [](C10_ValueOfLastRecord) /\ [][C10_SnapshotCarriesLast]_vars

C10_Witness ==
  /\ IncrementalWithMarker
  /\ IsDone
  /\ n_updates >= 2
  /\ get_bookmark(state, TapStreamId, "replication_key_value")
       # get_bookmark(state_in, TapStreamId, "replication_key_value")
  /\ \E i \in 1..(Len(messages) - 1) :
       /\ messages[i].type = "STATE"
       /\ messages[i].value # state

\* C11: for a FULL_TABLE or LOG_BASED stream called with a max_pk_values marker
\* in its checkpoint, whatever the marker's value, once a record has had its
\* bookmark update last_pk_fetched is that record restricted to the stream's
\* key properties.
HasMarker(st, key) == TapStreamId \in DOMAIN st /\ key \in DOMAIN st[TapStreamId]

C11_LastPkOfLastRecord ==
  ( /\ replication_method \in {"FULL_TABLE", "LOG_BASED"}
    /\ HasMarker(state_in, "max_pk_values")
    /\ n_updates >= 1 ) =>
    get_bookmark(state, TapStreamId, "last_pk_fetched")
      = PyDict([k \in DOMAIN OutRecords[n_updates] \cap KeyProperties |->
                  OutRecords[n_updates][k]])

\* ------------------------------------------------------------------ the other functions
\* The functions of the module that sync_query's callers apply on their own,
\* each called on arguments drawn from bounded sets; `call` records the
\* arguments and the outcome.  The functions keep nothing between calls, so
\* a behaviour is one call.
KnownBookmarkKeys ==
  {"version", "max_pk_values", "last_pk_fetched", "replication_key", "replication_key_value"}

BookmarkValue(k) ==
  CASE k = "version" -> PyInt(1)
    [] k = "max_pk_values" -> PyDict([id |-> PyInt(2)])
    [] k = "last_pk_fetched" -> PyDict([id |-> PyInt(1)])
    [] k = "replication_key" -> PyStr("upd")
    [] k = "replication_key_value" -> PyInt(1)

StreamBookmarks == {[k \in K |-> BookmarkValue(k)] : K \in SUBSET KnownBookmarkKeys}

\* checkpoint trees: with or without bookmarks of the stream, of another stream
BookmarkTrees ==
  {EmptyMap, (OtherStreamId :> OtherBookmarks)}
  \cup {(TapStreamId :> b) : b \in StreamBookmarks}
  \cup {(TapStreamId :> b) @@ (OtherStreamId :> OtherBookmarks) : b \in StreamBookmarks}

WhitelistCall ==
  /\ call = NoCall
  /\ \E keys \in SUBSET KnownBookmarkKeys, sid \in {TapStreamId, OtherStreamId},
        st \in BookmarkTrees :
       call' = [fn |-> "whitelist_bookmark_keys", keys |-> keys, stream |-> sid,
                before |-> st, after |-> whitelist_bookmark_keys(keys, sid, st)]
  /\ UNCHANGED << config, replication_method, source, state_in, fetched, exhausted, state,
                  pc, row, rows, ri, full_batch, record_message, rows_saved,
                  batch_rows_saved, batch_file_index, file, file_path, handles, disk,
                  messages, n_updates, failed >>

\* no sync_query running: its variables stay as they are at entry
InitCalls ==
  /\ config = [batch_messages |-> FALSE]
  /\ replication_method = "NONE"
  /\ source = [limit |-> 0, domain |-> {}]
  /\ state_in = (OtherStreamId :> OtherBookmarks)
  /\ state = state_in
  /\ InitLocals

\* values a driver hands over in a row
ElemDomain ==
  {None, PyInt(0), PyInt(1), PyBool(FALSE), PyBool(TRUE), [kind |-> "float", v |-> 0],
   PyBytes(<<0>>), PyBytes(<<1>>), PyBytes(<<0, 0>>), PyStr("0"),
   PyDateTime(1), PyTimeDelta(0)}

RowsUpTo(n) == UNION {[1..k -> ElemDomain] : k \in 0..n}

\* schemas of the two columns: `id` integer, boolean or nullable boolean,
\* `upd` integer or time
Schemas ==
  {[id |-> [type |-> t, format |-> "plain"], upd |-> [type |-> {"integer"}, format |-> f]] :
     t \in {{"integer"}, {"boolean"}, {"null", "boolean"}}, f \in {"plain", "time"}}

RowCall ==
  /\ call = NoCall
  /\ \E properties \in Schemas, r \in RowsUpTo(MaxRowLen) :
       call' = [fn |-> "row_to_singer_record", properties |-> properties, row |-> r,
                columns |-> Columns, raised |-> RowRaises(r, Columns),
                record |-> IF RowRaises(r, Columns) THEN EmptyMap
                           ELSE row_to_singer_record(properties, r, Columns)]
  /\ UNCHANGED << config, replication_method, source, state_in, fetched, exhausted, state,
                  pc, row, rows, ri, full_batch, record_message, rows_saved,
                  batch_rows_saved, batch_file_index, file, file_path, handles, disk,
                  messages, n_updates, failed >>

\* Text is a sequence of pieces: the characters of the identifiers and the
\* fixed pieces of the statement.
\* the piece that stands for the delimiter character of identifiers
Backtick == "BACKTICK"

IdChars == {"a", Backtick, "%"}

Idents == UNION {[1..k -> IdChars] : k \in 0..MaxIdLen}

\* the identifier wrongly taken to be escapable whatever it contains
EscapeNeverRaises(string) == FALSE

\* the test of escape for the delimiter in string
EscapeRaises(string) == \E i \in 1..Len(string) : string[i] = Backtick

escape(string) == <<Backtick>> \o string \o <<Backtick>>

\* one entry of escaped_columns
EscapedColumn(col_name, property_format) ==
  CASE property_format = "binary" ->
         <<"hex(trim(trailing CHAR(0x00) from ">> \o escape(col_name) \o <<")) as ">>
           \o escape(col_name)
    [] property_format = "spatial" ->
         <<"ST_AsGeoJSON(">> \o escape(col_name) \o <<") as ">> \o escape(col_name)
    [] OTHER -> escape(col_name)

\* ",".join(parts)
RECURSIVE Join(_)
Join(parts) ==
  IF parts = << >> THEN << >>
  ELSE IF Len(parts) = 1 THEN parts[1]
  ELSE parts[1] \o <<",">> \o Join(Tail(parts))

\* text.replace('%', '%%')
RECURSIVE ReplacePercent(_)
ReplacePercent(text) ==
  IF text = << >> THEN << >>
  ELSE (IF Head(text) = "%" THEN <<"%", "%">> ELSE <<Head(text)>>)
         \o ReplacePercent(Tail(text))

SelectRaises(database_name, table, columns) ==
  \/ EscapeRaises(database_name)
  \/ EscapeRaises(table)
  \/ \E i \in 1..Len(columns) : EscapeRaises(columns[i])

generate_select_sql(database_name, table, columns, formats) ==
  LET escaped_columns == [i \in 1..Len(columns) |-> EscapedColumn(columns[i], formats[i])]
  IN  ReplacePercent(<<"SELECT ">> \o Join(escaped_columns) \o <<" FROM ">>
                       \o escape(database_name) \o <<".">> \o escape(table))

\* the names of the database and of the table in the catalog entry
DatabaseNames == {<<"a">>, <<Backtick>>, <<"a", "%">>}
TableNames == {<<"a">>, <<"a", Backtick>>}

SelectCall ==
  /\ call = NoCall
  /\ \E database_name \in DatabaseNames, table \in TableNames, n \in 0..MaxCols :
       \E columns \in [1..n -> Idents], formats \in [1..n -> {"plain", "binary", "spatial"}] :
         call' = [fn |-> "generate_select_sql", database_name |-> database_name,
                  table |-> table, columns |-> columns, formats |-> formats,
                  raised |-> SelectRaises(database_name, table, columns),
                  select_sql |-> IF SelectRaises(database_name, table, columns) THEN << >>
                                 ELSE generate_select_sql(database_name, table, columns,
                                                          formats)]
  /\ UNCHANGED << config, replication_method, source, state_in, fetched, exhausted, state,
                  pc, row, rows, ri, full_batch, record_message, rows_saved,
                  batch_rows_saved, batch_file_index, file, file_path, handles, disk,
                  messages, n_updates, failed >>

\* the records of the sync inputs
RecordDomain == {RowToSingerRecord(r, Columns) : r \in {r \in RowDomain : ~RowRaises(r, Columns)}}

\* the checkpoint as update_bookmark leaves it when line 186 raises KeyError:
\* replication_key is already written back
StateAtKeyError(st) ==
  write_bookmark(st, TapStreamId, "replication_key",
                 get_bookmark(st, TapStreamId, "replication_key"))

UpdateCall ==
  /\ call = NoCall
  /\ \E method \in ReplicationMethods, record \in RecordDomain, st \in BookmarkTrees :
       call' = [fn |-> "update_bookmark", replication_method |-> method, record |-> record,
                before |-> st, raised |-> UpdateRaises(record, method, st),
                after |-> IF UpdateRaises(record, method, st) THEN StateAtKeyError(st)
                          ELSE update_bookmark(record, method, st)]
  /\ UNCHANGED << config, replication_method, source, state_in, fetched, exhausted, state,
                  pc, row, rows, ri, full_batch, record_message, rows_saved,
                  batch_rows_saved, batch_file_index, file, file_path, handles, disk,
                  messages, n_updates, failed >>

NextCalls ==
  \/ WhitelistCall
  \/ RowCall
  \/ SelectCall
  \/ UpdateCall

SpecCalls == InitCalls /\ [][NextCalls]_vars

\* C12: after whitelist_bookmark_keys(allowed_keys, stream_id, state) the
\* stream's checkpoint holds exactly its former fields that are in
\* allowed_keys, each with its former value; the checkpoints of the other
\* streams are as before; and a second application changes nothing.
C12_WhitelistKeepsAllowedOnly ==
  call.fn = "whitelist_bookmark_keys" =>
    LET b == call.before
        a == call.after
        sid == call.stream
    IN  /\ BookmarkKeysOf(a, sid) \subseteq call.keys
        /\ BookmarkKeysOf(a, sid) = BookmarkKeysOf(b, sid) \cap call.keys
        /\ \A k \in BookmarkKeysOf(a, sid) : a[sid][k] = b[sid][k]
        /\ DOMAIN a \ {sid} = DOMAIN b \ {sid}
        /\ \A s \in DOMAIN b \ {sid} : a[s] = b[s]
        /\ whitelist_bookmark_keys(call.keys, sid, a) = a

C12_Witness ==
  /\ call.fn = "whitelist_bookmark_keys"
  /\ call.stream = TapStreamId
  /\ OtherStreamId \in DOMAIN call.before
  /\ BookmarkKeysOf(call.after, TapStreamId) # {}
  /\ BookmarkKeysOf(call.after, TapStreamId) # BookmarkKeysOf(call.before, TapStreamId)

\* C13: row_to_singer_record returns a record with one entry per column, and
\* raises for a row whose length differs from the column list's, shorter or
\* longer.
C13_ArityMismatchRaises ==
  call.fn = "row_to_singer_record" =>
    IF Len(call.row) # Len(call.columns)
      THEN call.raised
      ELSE ~call.raised /\ Cardinality(DOMAIN call.record) = Len(call.columns)

\* what the claim of C14 gives for a value of a boolean column
AllZeroBytes(elem) ==
  elem.kind = "bytes" /\ Len(elem.v) >= 1 /\ \A j \in 1..Len(elem.v) : elem.v[j] = 0

NumericZero(elem) ==
  \/ elem.kind \in {"int", "float"} /\ elem.v = 0
  \/ elem.kind = "bool" /\ elem.v = FALSE

BooleanOf(elem) ==
  IF elem = None THEN None
  ELSE IF NumericZero(elem) \/ AllZeroBytes(elem) THEN PyBool(FALSE)
  ELSE PyBool(TRUE)

\* C14: in a column declared boolean, null stays null, numeric zero and an
\* all-zero byte sequence become false, every other value becomes true.
C14_BooleanMapping ==
  (call.fn = "row_to_singer_record" /\ ~call.raised) =>
    \A i \in 1..Min(Len(call.row), Len(call.columns)) :
      "boolean" \in call.properties[call.columns[i]].type =>
        call.record[call.columns[i]] = BooleanOf(call.row[i])

\* Reading a statement back: the identifiers between backticks, grouped into
\* the comma-separated entries of the projection; the entry left open at the
\* end holds those that follow FROM.
ScanPiece(acc, t) ==
  IF acc.in_quote
    THEN IF t = Backtick
           THEN [acc EXCEPT !.in_quote = FALSE, !.entry = Append(@, acc.ident),
                            !.ident = << >>]
           ELSE [acc EXCEPT !.ident = Append(@, t)]
    ELSE CASE t = Backtick -> [acc EXCEPT !.in_quote = TRUE]
           [] t = "," -> [acc EXCEPT !.entries = Append(@, acc.entry), !.entry = << >>]
           [] t = " FROM " ->
                [acc EXCEPT !.entries = IF acc.entries = << >> /\ acc.entry = << >>
                                          THEN << >> ELSE Append(@, acc.entry),
                            !.entry = << >>]
           [] OTHER -> acc

RECURSIVE ScanFrom(_, _, _)
ScanFrom(text, i, acc) ==
  IF i > Len(text) THEN acc ELSE ScanFrom(text, i + 1, ScanPiece(acc, text[i]))

ScanSelect(text) ==
  ScanFrom(text, 1, [in_quote |-> FALSE, ident |-> << >>, entry |-> << >>,
                     entries |-> << >>])

AnyBacktick(c) ==
  \/ \E i \in 1..Len(c.database_name) : c.database_name[i] = Backtick
  \/ \E i \in 1..Len(c.table) : c.table[i] = Backtick
  \/ \E i \in 1..Len(c.columns) : \E j \in 1..Len(c.columns[i]) : c.columns[i][j] = Backtick

\* C15: with a backtick in the database name, the table name or a column name
\* generate_select_sql raises and returns no text; otherwise the projection
\* of the text has one entry per column of the list, in the list's order, and
\* the entry names its column between backticks (percent signs doubled, as
\* in the whole text) and no other.
C15_SelectEscapesOrRaises ==
  call.fn = "generate_select_sql" =>
    IF AnyBacktick(call)
      THEN call.raised /\ call.select_sql = << >>
      ELSE /\ ~call.raised
           /\ LET scan == ScanSelect(call.select_sql)
              IN  /\ Len(scan.entries) = Len(call.columns)
                  /\ \A i \in 1..Len(scan.entries) :
                       /\ scan.entries[i] # << >>
                       /\ \A j \in 1..Len(scan.entries[i]) :
                            scan.entries[i][j] = ReplacePercent(call.columns[i])
                  /\ scan.entry = <<ReplacePercent(call.database_name),
                                    ReplacePercent(call.table)>>

C15_Witness ==
  /\ call.fn = "generate_select_sql"
  /\ ~call.raised
  /\ Len(call.columns) = 2
  /\ call.columns[1] # call.columns[2]
  /\ call.formats[1] = "binary"
  /\ \E j \in 1..Len(call.columns[2]) : call.columns[2][j] = "%"

\* what a reader finds in the value of a STATE message while the checkpoint
\* holds st
SnapshotContent(m, st) == IF DOMAIN m.value = {"alias"} THEN st ELSE m.value

C16_CopyAtEmission ==
  EmitsSnapshot =>
    /\ state' = state
    /\ SnapshotContent(Last(messages'), state') = state

C16_EmittedStaysAsItWas ==
  \A i \in 1..Len(messages) :
    messages[i].type = "STATE" =>
      /\ i <= Len(messages')
      /\ SnapshotContent(messages'[i], state') = SnapshotContent(messages[i], state)

\* C16: the value of a STATE message is the checkpoint tree as it is when the
\* message is emitted, and reads the same after every later step of the run,
\* the later bookmark updates of the stream included.
C16_SnapshotIsPointInTimeCopy ==
  [][C16_CopyAtEmission /\ C16_EmittedStaysAsItWas]_vars

C16_Witness ==
  /\ Batched
  /\ ~IsDone
  /\ n_updates >= 3
  /\ \E i \in 1..Len(messages) :
       /\ messages[i].type = "STATE"
       /\ get_bookmark(messages[i].value, TapStreamId, "replication_key_value")
            # get_bookmark(state, TapStreamId, "replication_key_value")

OpenHandles == {h \in 1..Len(handles) : ~handles[h].closed}

C17_OneOpenConsecutive ==
  /\ Cardinality(OpenHandles) <= 1
  /\ batch_file_index = Len(handles)
  /\ \A h \in 1..Len(handles) : handles[h].path = get_new_batch_file_path(Table, h - 1)
  /\ \A g, h \in 1..Len(handles) : g # h => handles[g].path # handles[h].path
  /\ IsDone => OpenHandles = {}

C17_CloseBeforeOpen ==
  Len(handles') # Len(handles) =>
    /\ Len(handles') = Len(handles) + 1
    /\ OpenHandles = {}
    /\ \A h \in 1..Len(handles) : handles'[h] = handles[h]

\* C17: in batched mode at most one batch file is open at a time; a file is
\* opened only when every file opened before it is closed; the files carry
\* the indices 0, 1, 2, ... in the order of opening, none twice; and after
\* completion no file is open.
C17_AtMostOneOpenFile ==
  [](C17_OneOpenConsecutive) /\ [][C17_CloseBeforeOpen]_vars

C17_Witness ==
  /\ Batched
  /\ IsDone
  /\ Len(handles) >= 3
  /\ Len(LinesOf(2)) >= 1

\* the bookmark keys update_bookmark may write under a replication method
WritableKeys(method) ==
  CASE method \in {"FULL_TABLE", "LOG_BASED"} -> {"last_pk_fetched"}
    [] method = "INCREMENTAL" -> {"replication_key", "replication_key_value"}
    [] OTHER -> {}

NoBaselineMarker(method, st) ==
  \/ method \in {"FULL_TABLE", "LOG_BASED"} /\ ~HasMarker(st, "max_pk_values")
  \/ method = "INCREMENTAL" /\ ~HasMarker(st, "replication_key")
  \/ method \notin {"FULL_TABLE", "LOG_BASED", "INCREMENTAL"}

\* C18: update_bookmark returns the checkpoint tree as it was when the stream
\* has no baseline marker for the replication method or the method is none of
\* the three; in every case the bookmarks of the other streams are as before,
\* the stream's bookmarks other than last_pk_fetched (FULL_TABLE, LOG_BASED)
\* or replication_key_value and replication_key (INCREMENTAL) are as before,
\* no other key is added, and the marker replication_key keeps its value.
C18_UpdateBookmarkFrame ==
  call.fn = "update_bookmark" =>
    LET b == call.before
        a == call.after
        method == call.replication_method
    IN  /\ NoBaselineMarker(method, b) => a = b
        /\ DOMAIN a \ {TapStreamId} = DOMAIN b \ {TapStreamId}
        /\ \A s \in DOMAIN b \ {TapStreamId} : a[s] = b[s]
        /\ BookmarkKeysOf(a, TapStreamId)
             \subseteq BookmarkKeysOf(b, TapStreamId) \cup WritableKeys(method)
        /\ \A k \in BookmarkKeysOf(b, TapStreamId) \ WritableKeys(method) :
             get_bookmark(a, TapStreamId, k) = b[TapStreamId][k]
        /\ \A k \in BookmarkKeysOf(b, TapStreamId) \cap {"replication_key", "max_pk_values"} :
             get_bookmark(a, TapStreamId, k) = b[TapStreamId][k]

C18_Witness ==
  /\ call.fn = "update_bookmark"
  /\ call.replication_method = "INCREMENTAL"
  /\ ~call.raised
  /\ call.after # call.before
  /\ OtherStreamId \in DOMAIN call.before
  /\ BookmarkKeysOf(call.before, TapStreamId)
       = {"version", "max_pk_values", "last_pk_fetched", "replication_key"}

\* the BATCH messages that name the file of file object h
DescriptorsOf(h) ==
  {i \in 1..Len(messages) :
     messages[i].type = "BATCH" /\ messages[i].filepath = handles[h].path}

\* the rows held by the files, among the first h opened, that a BATCH message names
RECURSIVE DescribedRows(_)
DescribedRows(h) ==
  IF h = 0 THEN 0
  ELSE DescribedRows(h - 1) + (IF DescriptorsOf(h) # {} THEN Len(LinesOf(h)) ELSE 0)

\* C19: on completion of a batched run every batch file holding a row is
\* named by exactly one BATCH message, no BATCH message names a file without
\* rows, and the files named hold together as many rows as were fetched; and
\* when the fetch loop has exited the row counter of the open file is 0 or
\* not a multiple of batch_size.
C19_EveryFilledFileDescribedOnce ==
  /\ pc \in {"close_last", "final_batch"} =>
       \/ batch_rows_saved = 0
       \/ batch_rows_saved % WriteBatchRows(config) # 0
  /\ (IsDone /\ Batched) =>
       /\ \A h \in FilledFiles : Cardinality(DescriptorsOf(h)) = 1
       /\ \A i \in 1..Len(messages) :
            messages[i].type = "BATCH" =>
              \E h \in FilledFiles : messages[i].filepath = handles[h].path
       /\ DescribedRows(Len(handles)) = Len(fetched)

C19_Witness ==
  /\ IsDone
  /\ Batched
  /\ BatchCursorSize(config) < WriteBatchRows(config)
  /\ Cardinality(FilledFiles) >= 2
  /\ Len(handles) \in FilledFiles
  /\ DescribedRows(Len(handles)) >= 3

C20_FinalSnapshot ==
  IsDone =>
    /\ exhausted
    /\ n_updates = Len(fetched)
    /\ Len(OutRecords) = Len(fetched)
    /\ messages # << >>
    /\ Last(messages).type = "STATE"
    /\ Last(messages).value = state
    /\ Len(fetched) = 0 => Last(messages).value = state_in
    /\ Len(fetched) >= 1 =>
         Last(messages).value
           = update_bookmark(RowToSingerRecord(Last(fetched), Columns), replication_method,
                             state)

\* C20: in both modes a run in which nothing fails reaches the exhaustion of
\* the cursor and completes, and then the last message emitted is a STATE
\* message holding the checkpoint as the bookmark update of the last row
\* fetched left it, or the checkpoint sync_query was called with when no row
\* was fetched.
C20_TerminatesWithFinalSnapshot ==
  <>(IsDone \/ failed) /\ [](C20_FinalSnapshot)

C20_Witness ==
  /\ IsDone
  /\ Batched
  /\ Len(fetched) = MaxRows
  /\ replication_method = "FULL_TABLE"
  /\ Last(messages).value # state_in

====
